---- MODULE Spec2Model ----
(***************************************************************************)
(* A model of the SCONE executors (scone/executor.py) and the predicate    *)
(* classifier (scone/predicate.py).                                        *)
(*                                                                         *)
(* Python lists are heap objects: the heap is a sequence of lists and an   *)
(* address is an index into it.  A denotation refers to its execution      *)
(* stack by address; a top-down call frame is a list of its own, referred  *)
(* to from the stack by a "frame" value.  Names are sequences of           *)
(* one-character strings, so that name[0], name[1:], len(name) and         *)
(* int(name) are computed as the code computes them.                       *)
(***************************************************************************)
EXTENDS Integers, Sequences, FiniteSets, TLC

VARIABLES
    engine,         \* "BU": SconeExecutor, "TD": SconeTopDownExecutor
    initial_state,  \* SconeExecutor.initial_state
    vocab,          \* the predicate list the caller draws its tokens from
    heap,           \* the list objects reachable from old and den
    old,            \* the denotation handed to the last call (old_denotation)
    den,            \* the denotation the last call returned (NoneDen: none)
    preHeap,        \* the lists reachable from old as they were before the call
    last,           \* the last call: its operation, tokens and outcome
    nfired,         \* the actions performed so far on the way to old and to den
    both,           \* the last logical form run through both executors, and the outcomes
    CACHE,          \* SconePredicate.CACHE: name -> instance
    instances,      \* the SconePredicate instances, in the order of their creation
    made,           \* the last SconePredicate(name) request and what it returned
    first,          \* name -> the instance its first SconePredicate(name) returned
    checked         \* the last SconeProgramChecker call and what it returned

\* the variables of the predicate registry and of the program checker
pvars == <<CACHE, instances, made, first, checked>>

\* the variables of the executors and their caller
evars == <<engine, initial_state, vocab, heap, old, den, preHeap, last, nfired, both>>

vars == <<engine, initial_state, vocab, heap, old, den, preHeap, last, nfired, both,
          CACHE, instances, made, first, checked>>

----------------------------------------------------------------------------
(* Bounds of the model *)

\* longest token sequence handed to one execute call
MaxSeq == 2
\* a call is made only on a denotation whose stack holds at most MaxStack elements
MaxStack == 3
MaxOpen == 2
\* a call is made only on a denotation with fewer than MaxUtterances history entries
MaxUtterances == 2
\* a call is made only on a denotation whose frames hold at most MaxFrame elements
MaxFrame == 3
\* deepest nesting of functions in an argument of a logical form
MaxDepth == 2
\* most SconePredicate instances created
MaxInstances == 2
\* longest program handed to the checker
MaxProgram == 2

----------------------------------------------------------------------------
(* Characters and names *)

Digits == <<"0", "1", "2", "3", "4", "5", "6", "7", "8", "9">>

Letters ==
    {"a", "b", "c", "d", "e", "f", "g", "h", "i", "j", "k", "l", "m", "n",
     "o", "p", "q", "r", "s", "t", "u", "v", "w", "x", "y", "z",
     "A", "B", "C", "D", "E", "F", "G", "H", "I", "J", "K", "L", "M", "N",
     "O", "P", "Q", "R", "S", "T", "U", "V", "W", "X", "Y", "Z"}

isalpha(c) == c \in Letters

isdigit(c) == \E i \in 1..Len(Digits) : Digits[i] = c

DigitValue(c) == (CHOOSE i \in 1..Len(Digits) : Digits[i] = c) - 1

AllDigits(s) == s # <<>> /\ \A i \in 1..Len(s) : isdigit(s[i])

RECURSIVE DigitsValue(_)
DigitsValue(s) ==
    IF s = <<>> THEN 0
    ELSE 10 * DigitsValue(SubSeq(s, 1, Len(s) - 1)) + DigitValue(s[Len(s)])

\* int(name) for a name whose first character is '-' or a digit:
\* an optional sign and at least one digit, anything else is a ValueError
IntParses(name) ==
    IF name[1] = "-" THEN AllDigits(Tail(name)) ELSE AllDigits(name)

int(name) ==
    IF name[1] = "-" THEN 0 - DigitsValue(Tail(name)) ELSE DigitsValue(name)

ColorR == <<"r">>
ColorG == <<"g">>
Num0 == <<"0">>
Num1 == <<"1">>
NumNeg1 == <<"-", "1">>
NumBad == <<"-">>
FracHalf == <<"X", "1", "/", "2">>
AllObjects == <<"a", "l", "l", "-", "o", "b", "j", "e", "c", "t", "s">>
Index == <<"i", "n", "d", "e", "x">>
Argmin == <<"a", "r", "g", "m", "i", "n">>
PColor == <<"P", "C", "o", "l", "o", "r">>
DNext == <<"D", "N", "e", "x", "t">>
APour == <<"A", "P", "o", "u", "r">>
ADrain == <<"A", "D", "r", "a", "i", "n">>
ColorA == <<"A">>
Unknown == <<"z", "z">>
Empty == <<>>
H0 == <<"H", "0">>
H1 == <<"H", "1">>
H2 == <<"H", "2">>
HUndo == <<"H", "U", "n", "d", "o">>

----------------------------------------------------------------------------
(* SconePredicate._compute_types *)

BUILTIN_NAMES ==
    {AllObjects, Index, Argmin, <<"a", "r", "g", "m", "a", "x">>}

ALL_TYPES ==
    <<"color", "number", "fraction", "property", "double_property", "action",
      "builtin", "history_slot">>

\* _compute_types in which every rule that matches adds its type
compute_types_every_match(name) ==
    IF name = <<>> THEN [err |-> "IndexError", types |-> <<>>]
    ELSE LET rule(i) ==
                 CASE i = 1 -> Len(name) = 1 /\ isalpha(name[1])
                   [] i = 2 -> name[1] = "-" \/ isdigit(name[1])
                   [] i = 3 -> name[1] = "X"
                   [] i = 4 -> name[1] = "P"
                   [] i = 5 -> name[1] = "D"
                   [] i = 6 -> name[1] = "A"
                   [] i = 7 -> name \in BUILTIN_NAMES
                   [] i = 8 -> name[1] = "H"
             F[i \in 0..Len(ALL_TYPES)] ==
                 IF i = 0 THEN <<>>
                 ELSE IF rule(i) THEN Append(F[i - 1], ALL_TYPES[i]) ELSE F[i - 1]
         IN  IF F[Len(ALL_TYPES)] = <<>>
             THEN [err |-> "UnknownPredicate", types |-> <<>>]
             ELSE [err |-> "", types |-> F[Len(ALL_TYPES)]]

\* the tuple of types of a name; err is "" unless the call raises
compute_types(name) ==
    IF Len(name) = 1 /\ isalpha(name[1])
    THEN [err |-> "", types |-> <<"color">>]
    ELSE IF name = <<>> THEN [err |-> "IndexError", types |-> <<>>]
    ELSE IF name[1] = "-" \/ isdigit(name[1])
    THEN [err |-> "", types |-> <<"number">>]
    ELSE IF name[1] = "X" THEN [err |-> "", types |-> <<"fraction">>]
    ELSE IF name[1] = "P" THEN [err |-> "", types |-> <<"property">>]
    ELSE IF name[1] = "D" THEN [err |-> "", types |-> <<"double_property">>]
    ELSE IF name[1] = "A" THEN [err |-> "", types |-> <<"action">>]
    ELSE IF name \in BUILTIN_NAMES THEN [err |-> "", types |-> <<"builtin">>]
    ELSE IF name[1] = "H" THEN [err |-> "", types |-> <<"history_slot">>]
    ELSE [err |-> "UnknownPredicate", types |-> <<>>]

\* x in self.types
HasType(name, x) ==
    LET c == compute_types(name)
    IN  c.err = "" /\ \E i \in 1..Len(c.types) : c.types[i] = x

----------------------------------------------------------------------------
(* Values on a stack, in a frame or in a history entry *)

IntV(n) == [t |-> "int", n |-> n, s |-> <<>>, l |-> <<>>]
StrV(s) == [t |-> "str", n |-> 0, s |-> s, l |-> <<>>]
\* a SconeObject: its position and the colour it had when it was taken
ObjV(pos, c) == [t |-> "obj", n |-> pos, s |-> <<c>>, l |-> <<>>]
ListV(l) == [t |-> "list", n |-> 0, s |-> <<>>, l |-> l]
\* a reference to a call frame (a list of the heap)
FrameV(a) == [t |-> "frame", n |-> a, s |-> <<>>, l |-> <<>>]

\* Python truth value, as 'assert result' takes it
Truthy(v) ==
    CASE v.t = "int" -> v.n # 0
      [] v.t = "str" -> v.s # <<>>
      [] v.t = "list" -> v.l # <<>>
      [] OTHER -> TRUE

\* objects[i] of a Python list, i counted from 0 and from the end when negative
PyInRange(l, i) == IF i >= 0 THEN i < Len(l) ELSE 0 - i <= Len(l)

PyIndex(l, i) == IF i >= 0 THEN l[i + 1] ELSE l[Len(l) + i + 1]

\* Offset that takes every number as 1-based
OffsetOneBased(number) == number - 1

\* the index the code computes for a 1-based or end-relative number
Offset(number) == IF number > 0 THEN number - 1 ELSE number

----------------------------------------------------------------------------
(* The world state: the colour at each position ("e": empty) *)

Pour == Tail(APour)
Unpour == <<"U", "n">> \o <<"p", "o", "u", "r">>
Drain == Tail(ADrain)
Color == Tail(PColor)
Next2 == Tail(DNext)

all_objects(ws) == ListV([i \in 1..Len(ws) |-> ObjV(i, ws[i])])

IsColorValue(v) == v.t = "str" /\ Len(v.s) = 1

\* the objects at the given positions, from left to right
Selected(ws, positions) ==
    LET F[i \in 0..Len(ws)] ==
            IF i = 0 THEN <<>>
            ELSE IF i \in positions THEN Append(F[i - 1], ObjV(i, ws[i])) ELSE F[i - 1]
    IN  F[Len(ws)]

PortResult(err, val) == [err |-> err, val |-> val]

apply_join(ws, value, prop) ==
    IF prop = Color /\ IsColorValue(value)
    THEN LET keep == {i \in 1..Len(ws) : ws[i] = value.s[1]}
         IN  PortResult("", ListV(Selected(ws, keep)))
    ELSE PortResult("PortError", ListV(<<>>))

apply_double_join(ws, value1, value2, prop) ==
    IF prop = Next2 /\ IsColorValue(value1) /\ IsColorValue(value2)
    THEN LET keep == {i \in 1..(Len(ws) - 1) : /\ ws[i] = value1.s[1]
                                                /\ ws[i + 1] = value2.s[1]}
         IN  PortResult("", ListV(Selected(ws, keep)))
    ELSE PortResult("PortError", ListV(<<>>))

\* number of arguments an action pops from the tail of the list it is given
ActionArity(action) ==
    CASE action = Pour -> 2
      [] action = Unpour -> 2
      [] action = Drain -> 1
      [] OTHER -> 0 - 1

ActionResult(err, ws, entry, rest) ==
    [err |-> err, world_state |-> ws, history_entry |-> entry, rest |-> rest]

\* apply_action(action, stack): pops the arguments from the tail of stack and
\* returns the new state and the history entry (action name, arguments);
\* rest is the list as the port leaves it
apply_action(ws, action, stack) ==
    LET n == Len(stack)
        bad(e) == ActionResult(e, ws, <<>>, stack)
    IN  IF ActionArity(action) < 0 THEN bad("PortError")
        ELSE IF n < ActionArity(action) THEN bad("IndexError")
        ELSE IF action \in {Pour, Unpour}
        THEN LET pos == stack[n - 1]
                 c == stack[n]
             IN  IF /\ pos.t = "int" /\ pos.n \in 1..Len(ws) /\ IsColorValue(c)
                 THEN ActionResult("",
                        [ws EXCEPT ![pos.n] = IF action = Pour THEN c.s[1] ELSE "e"],
                        <<StrV(action), pos, c>>,
                        SubSeq(stack, 1, n - 2))
                 ELSE bad("PortError")
        ELSE LET o == stack[n]
             IN  IF o.t = "obj" /\ o.n \in 1..Len(ws)
                 THEN ActionResult("", [ws EXCEPT ![o.n] = "e"],
                        <<StrV(action), o>>, SubSeq(stack, 1, n - 1))
                 ELSE bad("PortError")

reverse_action(action) ==
    CASE action = Pour -> PortResult("", Unpour)
      [] action = Unpour -> PortResult("", Pour)
      [] OTHER -> PortResult("PortError", <<>>)

\* the object of the current state at the position of a recorded object
resolve_argument(ws, argument) == ObjV(argument.n, ws[argument.n])

----------------------------------------------------------------------------
(* Denotations and the heap *)

SconeDenotation(world_state, command_history, execution_stack) ==
    [none |-> FALSE,
     world_state |-> world_state,
     command_history |-> command_history,
     execution_stack |-> execution_stack]

\* Python's None where a denotation is expected
NoneDen ==
    [none |-> TRUE, world_state |-> <<>>, command_history |-> <<>>,
     execution_stack |-> 0]

utterance_idx(d) == Len(d.command_history)

\* the list a denotation's execution_stack refers to
StackOf(h, d) == h[d.execution_stack]

SetList(h, a, l) == [h EXCEPT ![a] = l]

\* the outcome of a call: err is "" when it returned; heap is the heap it
\* left; fired lists the history entries of the actions it performed;
\* reductions counts the passes of the top-down 'while ready' loop
Returned(h, d, fired) ==
    [err |-> "", heap |-> h, den |-> d, fired |-> fired, reductions |-> 0]

Raised(e, h) ==
    [err |-> e, heap |-> h, den |-> NoneDen, fired |-> <<>>, reductions |-> 0]

\* StartDenotation without the copy: the new denotation shares the old stack list
StartDenotationShared(old_denotation, h) ==
    IF old_denotation.none
    THEN Returned(Append(h, <<>>),
                  SconeDenotation(initial_state, <<>>, Len(h) + 1), <<>>)
    ELSE Returned(h, old_denotation, <<>>)

\* the first lines of execute and of execute_predicate: a fresh denotation,
\* or the old one with a copy of its stack list (the elements are shared)
StartDenotation(old_denotation, h) ==
    IF old_denotation.none
    THEN Returned(Append(h, <<>>),
                  SconeDenotation(initial_state, <<>>, Len(h) + 1), <<>>)
    ELSE Returned(Append(h, StackOf(h, old_denotation)),
                  SconeDenotation(old_denotation.world_state,
                                  old_denotation.command_history,
                                  Len(h) + 1), <<>>)

----------------------------------------------------------------------------
(* SconeExecutor.apply *)

\* execution_stack.append(value); return denotation
PushValue(h, d, value) ==
    Returned(SetList(h, d.execution_stack, Append(StackOf(h, d), value)), d, <<>>)

\* PerformAction that returns the denotation with the old history
PerformActionKeepHistory(h, d, action) ==
    LET r == apply_action(d.world_state, action, StackOf(h, d))
    IN  IF r.err # "" THEN Raised(r.err, h)
        ELSE Returned(SetList(h, d.execution_stack, r.rest),
                      SconeDenotation(r.world_state, d.command_history,
                                      d.execution_stack),
                      <<r.history_entry>>)

\* PerformAction that returns the denotation with an empty stack
PerformActionCleared(h, d, action) ==
    LET r == apply_action(d.world_state, action, StackOf(h, d))
    IN  IF r.err # "" THEN Raised(r.err, h)
        ELSE Returned(SetList(h, d.execution_stack, <<>>),
                      SconeDenotation(r.world_state,
                                      Append(d.command_history, r.history_entry),
                                      d.execution_stack),
                      <<r.history_entry>>)

\* apply_action on the live stack, then a new denotation on the same list
PerformAction(h, d, action) ==
    LET r == apply_action(d.world_state, action, StackOf(h, d))
    IN  IF r.err # "" THEN Raised(r.err, h)
        ELSE Returned(SetList(h, d.execution_stack, r.rest),
                      SconeDenotation(r.world_state,
                                      Append(d.command_history, r.history_entry),
                                      d.execution_stack),
                      <<r.history_entry>>)

\* name[0] == 'P'
ApplyProperty(name, d, h) ==
    LET st == StackOf(h, d)
        n == Len(st)
    IN  IF n = 0 THEN Raised("IndexError", h)
        ELSE LET h1 == SetList(h, d.execution_stack, SubSeq(st, 1, n - 1))
                 r == apply_join(d.world_state, st[n], Tail(name))
             IN  IF r.err # "" THEN Raised(r.err, h1)
                 ELSE IF ~Truthy(r.val) THEN Raised("EmptyJoinResult", h1)
                 ELSE PushValue(h1, d, r.val)

\* ApplyDoubleProperty that takes the operands in the order they are popped
ApplyDoublePropertySwapped(name, d, h) ==
    LET st == StackOf(h, d)
        n == Len(st)
    IN  IF n < 2 THEN Raised("IndexError", h)
        ELSE LET h1 == SetList(h, d.execution_stack, SubSeq(st, 1, n - 2))
                 r == apply_double_join(d.world_state, st[n], st[n - 1], Tail(name))
             IN  IF r.err # "" THEN Raised(r.err, h1)
                 ELSE IF ~Truthy(r.val) THEN Raised("EmptyJoinResult", h1)
                 ELSE PushValue(h1, d, r.val)

\* name[0] == 'D'
ApplyDoubleProperty(name, d, h) ==
    LET st == StackOf(h, d)
        n == Len(st)
    IN  IF n = 0 THEN Raised("IndexError", h)
        ELSE IF n = 1
        THEN Raised("IndexError", SetList(h, d.execution_stack, <<>>))
        ELSE LET h1 == SetList(h, d.execution_stack, SubSeq(st, 1, n - 2))
                 value2 == st[n]
                 value1 == st[n - 1]
                 r == apply_double_join(d.world_state, value1, value2, Tail(name))
             IN  IF r.err # "" THEN Raised(r.err, h1)
                 ELSE IF ~Truthy(r.val) THEN Raised("EmptyJoinResult", h1)
                 ELSE PushValue(h1, d, r.val)

\* name == 'index'
ApplyIndex(d, h) ==
    LET st == StackOf(h, d)
        n == Len(st)
    IN  IF n = 0 THEN Raised("IndexError", h)
        ELSE LET number == st[n]
                 h1 == SetList(h, d.execution_stack, SubSeq(st, 1, n - 1))
             IN  IF number.t # "int" THEN Raised("AssertionError", h1)
                 ELSE IF n = 1 THEN Raised("IndexError", h1)
                 ELSE LET objects == st[n - 1]
                          h2 == SetList(h, d.execution_stack, SubSeq(st, 1, n - 2))
                      IN  IF objects.t # "list" THEN Raised("AssertionError", h2)
                          ELSE IF ~PyInRange(objects.l, Offset(number.n))
                          THEN Raised("IndexError", h2)
                          ELSE PushValue(h2, d, PyIndex(objects.l, Offset(number.n)))

\* ReplayedAction that replays the recorded action for HUndo too
ReplayedActionSame(name, command) == PortResult("", command[1].s)

\* the action H0 and HUndo perform: command[0], or the port's reverse of it
ReplayedAction(name, command) ==
    IF name = H0 THEN PortResult("", command[1].s)
    ELSE reverse_action(command[1].s)

\* SlotArgument that pushes the recorded element as it is
SlotArgumentRecorded(ws, argument) == PortResult("", argument)

\* the value H<k> pushes for an element of a history entry: the element if
\* it is an int or a str, else what the port resolves the object to
SlotArgument(ws, argument) ==
    IF argument.t \in {"int", "str"} THEN PortResult("", argument)
    ELSE IF argument.t # "obj" THEN PortResult("AssertionError", argument)
    ELSE PortResult("", resolve_argument(ws, argument))

\* name[0] == 'H'
ApplyHistory(name, d, h) ==
    LET st == StackOf(h, d)
        n == Len(st)
    IN  IF n = 0 THEN Raised("IndexError", h)
        ELSE LET number == st[n]
                 h1 == SetList(h, d.execution_stack, SubSeq(st, 1, n - 1))
             IN  IF number.t # "int" THEN Raised("AssertionError", h1)
                 ELSE IF ~PyInRange(d.command_history, Offset(number.n))
                 THEN Raised("IndexError", h1)
                 ELSE LET command == PyIndex(d.command_history, Offset(number.n))
                      IN  IF name = H0 \/ name = HUndo
                          THEN LET argument == ReplayedAction(name, command)
                               IN  IF argument.err # "" THEN Raised(argument.err, h1)
                                   ELSE PerformAction(h1, d, argument.val)
                          ELSE IF ~IntParses(Tail(name))
                          THEN Raised("ValueError", h1)
                          ELSE IF ~PyInRange(command, int(Tail(name)))
                          THEN Raised("IndexError", h1)
                          ELSE LET argument ==
                                       SlotArgument(d.world_state,
                                                    PyIndex(command, int(Tail(name))))
                               IN  IF argument.err # "" THEN Raised(argument.err, h1)
                                   ELSE PushValue(h1, d, argument.val)

apply(name, d, h) ==
    IF Len(name) = 1 /\ isalpha(name[1]) THEN PushValue(h, d, StrV(name))
    ELSE IF name = <<>> THEN Raised("IndexError", h)
    ELSE IF name[1] = "-" \/ isdigit(name[1])
    THEN IF IntParses(name) THEN PushValue(h, d, IntV(int(name)))
         ELSE Raised("ValueError", h)
    ELSE IF name[1] = "X" THEN PushValue(h, d, StrV(name))
    ELSE IF name = AllObjects THEN PushValue(h, d, all_objects(d.world_state))
    ELSE IF name[1] = "P" THEN ApplyProperty(name, d, h)
    ELSE IF name[1] = "D" THEN ApplyDoubleProperty(name, d, h)
    ELSE IF name[1] = "A" THEN PerformAction(h, d, Tail(name))
    ELSE IF name = Index THEN ApplyIndex(d, h)
    ELSE IF name[1] = "H" THEN ApplyHistory(name, d, h)
    ELSE Raised("UnknownPredicate", h)

----------------------------------------------------------------------------
(* SconeTopDownExecutor *)

CheckResult(err, ready) == [err |-> err, ready |-> ready]

\* the initial state's check_argument: whether the frame holds all its
\* arguments once next_arg is added (current_args counts the name)
port_check_argument(current_args, next_arg) ==
    LET name == current_args[1].s
        n == Len(current_args)
    IN  IF name[1] = "P" THEN CheckResult("", n = 1)
        ELSE IF name[1] = "D" THEN CheckResult("", n = 2)
        ELSE IF name[1] = "A" /\ ActionArity(Tail(name)) >= 0
        THEN IF n > ActionArity(Tail(name)) THEN CheckResult("InvalidArgument", FALSE)
             ELSE CheckResult("", n = ActionArity(Tail(name)))
        ELSE CheckResult("InvalidArgument", FALSE)

check_argument(current_args, next_arg) ==
    LET name == current_args[1].s
        n == Len(current_args)
    IN  IF name = Index THEN CheckResult("", n = 2)
        ELSE IF name[1] = "H"
        THEN IF next_arg.t # "int" THEN CheckResult("AssertionError", FALSE)
             ELSE CheckResult("", n = 1)
        ELSE port_check_argument(current_args, next_arg)

\* ready = self.check_argument(execution_stack[-1], obj)
\* execution_stack[-1].append(obj)
Appended(err, h, ready) == [err |-> err, heap |-> h, ready |-> ready]

AppendArgument(h, d, obj) ==
    LET st == StackOf(h, d)
    IN  IF st = <<>> THEN Appended("IndexError", h, FALSE)
        ELSE IF st[Len(st)].t # "frame" THEN Appended("TypeError", h, FALSE)
        ELSE LET a == st[Len(st)].n
                 c == check_argument(h[a], obj)
             IN  IF c.err # "" THEN Appended(c.err, h, FALSE)
                 ELSE Appended("", SetList(h, a, Append(h[a], obj)), c.ready)

\* execution_stack.append([name])
PushFrame(h, d, name) ==
    Returned(SetList(Append(h, <<StrV(name)>>), d.execution_stack,
                     Append(StackOf(h, d), FrameV(Len(h) + 1))),
             d, <<>>)

RECURSIVE Reduce(_, _)

\* RewriteFrame that appends the recorded arguments to the frame it pushes
\* and goes on reducing it
RewriteFrameReady(h, d, action, command) ==
    LET r == PushFrame(h, d, <<"A">> \o action)
    IN  Reduce(d, SetList(r.heap, Len(r.heap),
                          r.heap[Len(r.heap)] \o Tail(command)))

\* H0, HUndo: ready = False; execution_stack.append(['A' + action])
RewriteFrame(h, d, action, command) == PushFrame(h, d, <<"A">> \o action)

\* one more pass of the loop was made on the way to the outcome r
Pass(r) == [r EXCEPT !.reductions = @ + 1]

\* one pass of 'while ready': pop the innermost frame and execute it
Reduce(d, h) ==
    LET st == StackOf(h, d)
        args == h[st[Len(st)].n]
        h1 == SetList(h, d.execution_stack, SubSeq(st, 1, Len(st) - 1))
        name == args[1].s
        Continue(result) ==
            LET r == AppendArgument(h1, d, result)
            IN  IF r.err # "" THEN Raised(r.err, r.heap)
                ELSE IF r.ready THEN Reduce(d, r.heap)
                ELSE Returned(r.heap, d, <<>>)
    IN  Pass(
        IF name[1] = "P"
        THEN LET r == apply_join(d.world_state, args[2], Tail(name))
             IN  IF r.err # "" THEN Raised(r.err, h1)
                 ELSE IF ~Truthy(r.val) THEN Raised("EmptyJoinResult", h1)
                 ELSE Continue(r.val)
        ELSE IF name[1] = "D"
        THEN LET r == apply_double_join(d.world_state, args[2], args[3], Tail(name))
             IN  IF r.err # "" THEN Raised(r.err, h1)
                 ELSE IF ~Truthy(r.val) THEN Raised("EmptyJoinResult", h1)
                 ELSE Continue(r.val)
        ELSE IF name[1] = "A"
        THEN LET r == apply_action(d.world_state, Tail(name), Tail(args))
             IN  IF r.err # "" THEN Raised(r.err, h1)
                 ELSE Returned(h1,
                        SconeDenotation(r.world_state,
                                        Append(d.command_history, r.history_entry),
                                        d.execution_stack),
                        <<r.history_entry>>)
        ELSE IF name = Index
        THEN LET objects == args[2]
                 number == args[3]
             IN  IF objects.t # "list" \/ number.t # "int"
                 THEN Raised("AssertionError", h1)
                 ELSE IF ~PyInRange(objects.l, Offset(number.n))
                 THEN Raised("IndexError", h1)
                 ELSE Continue(PyIndex(objects.l, Offset(number.n)))
        ELSE IF name[1] = "H"
        THEN LET number == args[2]
             IN  IF number.t # "int" THEN Raised("AssertionError", h1)
                 ELSE IF ~PyInRange(d.command_history, Offset(number.n))
                 THEN Raised("IndexError", h1)
                 ELSE LET command == PyIndex(d.command_history, Offset(number.n))
                      IN  IF name = H0 \/ name = HUndo
                          THEN IF Len(st) > 1 THEN Raised("MisplacedAction", h1)
                               ELSE LET argument == ReplayedAction(name, command)
                                    IN  IF argument.err # ""
                                        THEN Raised(argument.err, h1)
                                        ELSE RewriteFrame(h1, d, argument.val,
                                                          command)
                          ELSE IF ~IntParses(Tail(name))
                          THEN Raised("ValueError", h1)
                          ELSE IF ~PyInRange(command, int(Tail(name)))
                          THEN Raised("IndexError", h1)
                          ELSE LET argument ==
                                       SlotArgument(d.world_state,
                                                    PyIndex(command, int(Tail(name))))
                               IN  IF argument.err # "" THEN Raised(argument.err, h1)
                                   ELSE Continue(argument.val)
        ELSE Raised("UnknownPredicate", h1))

\* a value predicate: add it to the innermost frame, then reduce while ready
SupplyArgument(h, d, obj) ==
    LET r == AppendArgument(h, d, obj)
    IN  IF r.err # "" THEN Raised(r.err, r.heap)
        ELSE IF r.ready THEN Reduce(d, r.heap)
        ELSE Returned(r.heap, d, <<>>)

\* a function predicate: check it against the innermost frame, open a frame
OpenFunction(h, d, name) ==
    LET st == StackOf(h, d)
    IN  IF st = <<>> THEN Raised("AssertionError", h)
        ELSE IF st[Len(st)].t # "frame" THEN Raised("TypeError", h)
        ELSE LET c == check_argument(h[st[Len(st)].n], StrV(name))
             IN  IF c.err # "" THEN Raised(c.err, h)
                 ELSE PushFrame(h, d, name)

\* OpenAction without the assertion that the stack is empty
OpenActionAnywhere(h, d, name) == PushFrame(h, d, name)

\* OpenAction that takes the frame of an A<action> as ready and reduces it
\* at once
OpenActionReady(h, d, name) ==
    IF StackOf(h, d) # <<>> THEN Raised("MisplacedAction", h)
    ELSE IF name[1] = "A" THEN Reduce(d, PushFrame(h, d, name).heap)
    ELSE PushFrame(h, d, name)

\* an action predicate (A<action>, H0, HUndo): assert the stack is empty,
\* open a frame, ready = False
OpenAction(h, d, name) ==
    IF StackOf(h, d) # <<>> THEN Raised("MisplacedAction", h)
    ELSE PushFrame(h, d, name)

top_down_apply(name, d, h) ==
    IF Len(name) = 1 /\ isalpha(name[1]) THEN SupplyArgument(h, d, StrV(name))
    ELSE IF name = <<>> THEN Raised("IndexError", h)
    ELSE IF name[1] = "-" \/ isdigit(name[1])
    THEN IF IntParses(name) THEN SupplyArgument(h, d, IntV(int(name)))
         ELSE Raised("ValueError", h)
    ELSE IF name[1] = "X" THEN SupplyArgument(h, d, StrV(name))
    ELSE IF name = AllObjects
    THEN SupplyArgument(h, d, all_objects(d.world_state))
    ELSE IF name[1] = "A" \/ name = H0 \/ name = HUndo
    THEN OpenAction(h, d, name)
    ELSE IF name[1] \in {"P", "D", "A", "H"} \/ name = Index
    THEN OpenFunction(h, d, name)
    ELSE Raised("UnknownPredicate", h)

----------------------------------------------------------------------------
(* execute, execute_predicate, finalize *)

\* self.apply: SconeTopDownExecutor overrides SconeExecutor.apply
SelfApply(self, name, d, h) ==
    IF self = "BU" THEN apply(name, d, h) ELSE top_down_apply(name, d, h)

\* for predicate in y_toks: denotation = self.apply(predicate.name, denotation)
\* applied counts the apply calls made, fired collects the entries appended,
\* reductions adds up the passes of the calls
RECURSIVE ApplyAll(_, _, _, _, _, _)
ApplyAll(self, y_toks, d, h, fired, applied) ==
    IF y_toks = <<>>
    THEN [err |-> "", heap |-> h, den |-> d, fired |-> fired, applied |-> applied,
          reductions |-> 0]
    ELSE LET Rest(r) ==
                 IF r.err # ""
                 THEN [err |-> r.err, heap |-> r.heap, den |-> NoneDen,
                       fired |-> <<>>, applied |-> applied + 1,
                       reductions |-> r.reductions]
                 ELSE [ApplyAll(self, Tail(y_toks), r.den, r.heap,
                                fired \o r.fired, applied + 1)
                           EXCEPT !.reductions = @ + r.reductions]
         \* the call is made once, and the loop goes on from what it returned
         IN  CHOOSE out \in {Rest(r) : r \in {SelfApply(self, Head(y_toks), d, h)}} :
                 TRUE

execute(self, y_toks, old_denotation, h) ==
    LET s == StartDenotation(old_denotation, h)
    IN  ApplyAll(self, y_toks, s.den, s.heap, <<>>, 0)

\* execute_predicate that ignores old_denotation
execute_predicate_fresh(self, predicate, old_denotation, h) ==
    LET s == StartDenotation(NoneDen, h)
    IN  SelfApply(self, predicate, s.den, s.heap)

\* a predicate is modelled by its name (predicate.name)
execute_predicate(self, predicate, old_denotation, h) ==
    LET s == StartDenotation(old_denotation, h)
    IN  SelfApply(self, predicate, s.den, s.heap)

\* finalize without the check of the stack
finalize_unchecked(denotation, h) ==
    [err |-> "", ret |-> denotation.world_state]

\* the world state, or the STACK_NOT_EMPTY error
finalize(denotation, h) ==
    IF StackOf(h, denotation) # <<>>
    THEN [err |-> "IncompleteProgram", ret |-> <<>>]
    ELSE [err |-> "", ret |-> denotation.world_state]

----------------------------------------------------------------------------
(* The lists a caller can still reach, numbered in the order it reaches them: *)
(* each denotation's stack list, then the frames that list refers to          *)

FrameRefs(l) ==
    LET F[i \in 0..Len(l)] ==
            IF i = 0 THEN <<>>
            ELSE IF l[i].t = "frame" THEN Append(F[i - 1], l[i].n) ELSE F[i - 1]
    IN  F[Len(l)]

RECURSIVE Distinct(_, _)
Distinct(seen, rest) ==
    IF rest = <<>> THEN seen
    ELSE IF \E i \in 1..Len(seen) : seen[i] = Head(rest)
    THEN Distinct(seen, Tail(rest))
    ELSE Distinct(Append(seen, Head(rest)), Tail(rest))

RECURSIVE Reached(_, _)
Reached(h, ds) ==
    IF ds = <<>> THEN <<>>
    ELSE IF Head(ds).none THEN Reached(h, Tail(ds))
    ELSE <<Head(ds).execution_stack>> \o FrameRefs(StackOf(h, Head(ds)))
            \o Reached(h, Tail(ds))

Held(h, ds) ==
    LET order == Distinct(<<>>, Reached(h, ds))
        place(a) == CHOOSE i \in 1..Len(order) : order[i] = a
        moved(v) == IF v.t = "frame" THEN FrameV(place(v.n)) ELSE v
    IN  [heap |-> [i \in 1..Len(order) |->
                      [j \in 1..Len(h[order[i]]) |-> moved(h[order[i]][j])]],
         dens |-> [k \in 1..Len(ds) |->
                      IF ds[k].none THEN ds[k]
                      ELSE [ds[k] EXCEPT !.execution_stack = place(@)]]]

----------------------------------------------------------------------------
(* SconePredicate: construction through the CACHE *)

\* an instance: state is "new" (no attribute), "named" (_name set) or
\* "typed" (_name and _types set)
Instance(name, types, state) == [name |-> name, types |-> types, state |-> state]

\* __new__ that creates and stores an instance at every request
new_always(cache, insts, name) ==
    [CACHE |-> [n \in DOMAIN cache \cup {name} |->
                   IF n = name THEN Len(insts) + 1 ELSE cache[n]],
     instances |-> Append(insts, Instance(<<>>, <<>>, "new")),
     pred |-> Len(insts) + 1]

\* SconePredicate.__new__: the instance stored for the name, created and
\* stored when there is none
new(cache, insts, name) ==
    IF name \notin DOMAIN cache
    THEN [CACHE |-> [n \in DOMAIN cache \cup {name} |->
                        IF n = name THEN Len(insts) + 1 ELSE cache[n]],
          instances |-> Append(insts, Instance(<<>>, <<>>, "new")),
          pred |-> Len(insts) + 1]
    ELSE [CACHE |-> cache, instances |-> insts, pred |-> cache[name]]

\* SconePredicate.__init__: self._name = name, then self._types
init(insts, pred, name) ==
    LET c == compute_types(name)
    IN  IF c.err # ""
        THEN [err |-> c.err,
              instances |-> [insts EXCEPT ![pred] =
                                Instance(name, insts[pred].types,
                                         IF insts[pred].state = "typed"
                                         THEN "typed" ELSE "named")]]
        ELSE [err |-> "",
              instances |-> [insts EXCEPT ![pred] = Instance(name, c.types, "typed")]]

\* SconePredicate.__eq__ (both are SconePredicate instances)
eq(self, other) == self.name = other.name

\* SconePredicate.types_vector
types_vector(self) ==
    [i \in 1..Len(ALL_TYPES) |->
        \E j \in 1..Len(self.types) : self.types[j] = ALL_TYPES[i]]

----------------------------------------------------------------------------
(* SconeProgramChecker *)

\* __call__: program is the list of the predicates' names; err is "" unless
\* the call raises
checker_call(max_stack_size, action_must_clear_beam, program, execution_stack) ==
    IF max_stack_size # 0 /\ Len(execution_stack) > max_stack_size
    THEN [err |-> "", valid |-> FALSE]
    ELSE IF action_must_clear_beam /\ execution_stack # <<>>
    THEN IF program = <<>> THEN [err |-> "IndexError", valid |-> FALSE]
         ELSE IF program[Len(program)] = <<>>
         THEN [err |-> "IndexError", valid |-> FALSE]
         ELSE IF program[Len(program)][1] = "A" THEN [err |-> "", valid |-> FALSE]
         ELSE [err |-> "", valid |-> TRUE]
    ELSE [err |-> "", valid |-> TRUE]

----------------------------------------------------------------------------
(* Logical forms: a tree <<name, arguments>>, and its two linearisations *)

Node(name, args) == <<name, args>>

RECURSIVE Postfix(_), PostfixAll(_), Preorder(_), PreorderAll(_)

\* the arguments first, then the name; H0 and HUndo pop their number first,
\* so it comes last
Postfix(lf) ==
    IF lf[1] \in {H0, HUndo}
    THEN PostfixAll(Tail(lf[2])) \o Postfix(lf[2][1]) \o <<lf[1]>>
    ELSE PostfixAll(lf[2]) \o <<lf[1]>>

PostfixAll(args) ==
    IF args = <<>> THEN <<>> ELSE Postfix(Head(args)) \o PostfixAll(Tail(args))

\* the name first, then the arguments from left to right
Preorder(lf) == <<lf[1]>> \o PreorderAll(lf[2])

PreorderAll(args) ==
    IF args = <<>> THEN <<>> ELSE Preorder(Head(args)) \o PreorderAll(Tail(args))

Leaves(v) ==
    {Node(x, <<>>) : x \in {y \in v : \/ HasType(y, "color")
                                     \/ HasType(y, "number")
                                     \/ HasType(y, "fraction")
                                     \/ y = AllObjects}}

\* the functions of one argument: P<prop> and H<k>
Functions1(v) ==
    {y \in v : \/ HasType(y, "property")
               \/ HasType(y, "history_slot") /\ y \notin {H0, HUndo}}

\* the functions of two arguments: D<prop> and index
Functions2(v) == {y \in v : HasType(y, "double_property") \/ y = Index}

RECURSIVE Arguments(_, _)
\* the argument trees that nest at most depth functions
Arguments(v, depth) ==
    IF depth = 0 THEN Leaves(v)
    ELSE LET s == Arguments(v, depth - 1)
         IN  s \cup {Node(f, <<a>>) : f \in Functions1(v), a \in s}
               \cup {Node(f, <<a[1], a[2]>>) : f \in Functions2(v), a \in s \X s}

\* one utterance: an action over its arguments, or H0 / HUndo over a number
\* and the arguments of the replayed action
LogicalForms(v) ==
    LET s == Arguments(v, MaxDepth)
        k == {Node(x, <<>>) : x \in {y \in v : HasType(y, "number")}}
        actions == {y \in v : HasType(y, "action")}
        replays == v \cap {H0, HUndo}
    IN  {Node(a, <<x>>) : a \in {y \in actions : ActionArity(Tail(y)) = 1}, x \in s}
          \cup {Node(a, <<x[1], x[2]>>) :
                    a \in {y \in actions : ActionArity(Tail(y)) = 2}, x \in s \X s}
          \cup {Node(h, <<x[1], x[2]>>) : h \in replays, x \in k \X s}
          \cup {Node(h, <<x[1], x[2], x[3]>>) : h \in replays, x \in k \X s \X s}

\* the final world state of a program run from a denotation
Outcome(self, y_toks, old_denotation, h) ==
    LET Final(r) ==
            IF r.err # "" THEN [err |-> r.err, world_state |-> <<>>]
            ELSE LET f == finalize(r.den, r.heap)
                 IN  [err |-> f.err, world_state |-> f.ret]
    IN  CHOOSE out \in {Final(r) : r \in {execute(self, y_toks, old_denotation, h)}} :
            TRUE

NoForm == [form |-> <<>>, bu |-> [err |-> "", world_state |-> <<>>],
           td |-> [err |-> "", world_state |-> <<>>]]

----------------------------------------------------------------------------
(* The caller: it holds one denotation (den), hands it to a call, and then *)
(* goes on from the denotation returned or from the one it handed in       *)

InitialStates == {<<"r", "g", "r">>, <<"g", "g", "e">>}

JoinPredicates == {ColorR, ColorG, FracHalf, PColor, DNext, NumBad, Argmin}

ObjectPredicates ==
    {AllObjects, ColorR, Num0, Num1, NumNeg1, PColor, Index, ADrain}

HistoryPredicates == {ColorR, Num1, NumNeg1, APour, H0, H1, H2, HUndo}

SlotPredicates == {AllObjects, Num1, Index, ADrain, H1}

Vocabularies ==
    {JoinPredicates, ObjectPredicates, HistoryPredicates, SlotPredicates}

\* token sequences of length 0..n over the vocabulary v
TokenSeqs(v, n) == UNION {[1..k -> v] : k \in 0..n}

NoCall == [op |-> "idle", toks |-> <<>>, err |-> "", fired |-> <<>>,
           applied |-> 0, reductions |-> 0, ret |-> <<>>]

Idle == last.op = "idle"

\* the denotations the caller hands to a call
Usable(d) ==
    IF d.none THEN TRUE
    ELSE /\ Len(StackOf(heap, d)) <= (IF engine = "BU" THEN MaxStack ELSE MaxOpen)
         /\ utterance_idx(d) < MaxUtterances
         /\ \A a \in 1..Len(heap) : Len(heap[a]) <= MaxFrame

NoRequest == [op |-> "none", name |-> <<>>, err |-> "", pred |-> 0, fresh |-> FALSE]

NoCheck == [op |-> "none", max_stack_size |-> 0, action_must_clear_beam |-> FALSE,
            program |-> <<>>, depth |-> 0, err |-> "", valid |-> FALSE]

\* no predicate has been constructed and no program checked
NoPredicates ==
    /\ CACHE = <<>>
    /\ instances = <<>>
    /\ made = NoRequest
    /\ first = <<>>
    /\ checked = NoCheck

Init ==
    /\ engine \in {"BU", "TD"}
    /\ initial_state \in InitialStates
    /\ vocab \in Vocabularies
    /\ heap = <<>>
    /\ old = NoneDen
    /\ den = NoneDen
    /\ preHeap = <<>>
    /\ last = NoCall
    /\ nfired = [old |-> 0, den |-> 0]
    /\ both = NoForm
    /\ NoPredicates

\* the state after a call that was handed den and ended as r
AfterCall(op, toks, r) ==
    LET post == Held(r.heap, <<den, r.den>>)
    IN  /\ heap' = post.heap
        /\ old' = post.dens[1]
        /\ den' = post.dens[2]
        /\ preHeap' = heap
        /\ last' = [op |-> op, toks |-> toks, err |-> r.err, fired |-> r.fired,
                    applied |-> r.applied, reductions |-> r.reductions,
                    ret |-> <<>>]
        /\ nfired' = [old |-> nfired.den,
                      den |-> IF r.err = "" THEN nfired.den + Len(r.fired) ELSE 0]
        /\ UNCHANGED <<engine, initial_state, vocab, both>>
        /\ UNCHANGED pvars

Execute ==
    /\ Idle
    /\ Usable(den)
    /\ \E y_toks \in TokenSeqs(vocab, MaxSeq) :
           AfterCall("execute", y_toks, execute(engine, y_toks, den, heap))

ExecutePredicate ==
    /\ Idle
    /\ Usable(den)
    /\ \E predicate \in vocab :
           LET r == execute_predicate(engine, predicate, den, heap)
           IN  AfterCall("execute_predicate", <<predicate>>,
                         [err |-> r.err, heap |-> r.heap, den |-> r.den,
                          fired |-> r.fired, applied |-> 1,
                          reductions |-> r.reductions])

Finalize ==
    /\ Idle
    /\ ~den.none
    /\ LET r == finalize(den, heap)
       IN  /\ old' = den
           /\ den' = NoneDen
           /\ preHeap' = heap
           /\ last' = [op |-> "finalize", toks |-> <<>>, err |-> r.err,
                       fired |-> <<>>, applied |-> 0, reductions |-> 0,
                       ret |-> r.ret]
           /\ nfired' = [old |-> nfired.den, den |-> 0]
           /\ UNCHANGED <<engine, initial_state, vocab, heap, both>>
           /\ UNCHANGED pvars

\* the caller keeps one of the denotations it holds (or none) for the next call
Continue ==
    /\ ~Idle
    /\ \E d \in {old, den, NoneDen} :
           LET kept == Held(heap, <<d>>)
           IN  /\ heap' = kept.heap
               /\ den' = kept.dens[1]
               /\ old' = NoneDen
               /\ preHeap' = <<>>
               /\ last' = NoCall
               /\ nfired' = [old |-> 0,
                             den |-> IF d.none THEN 0
                                     ELSE IF d = den THEN nfired.den
                                     ELSE nfired.old]
               /\ both' = NoForm
               /\ UNCHANGED <<engine, initial_state, vocab>>
               /\ UNCHANGED pvars

\* a logical form of the vocabulary goes through both executors, from den
Compare ==
    /\ Idle
    /\ Usable(den)
    /\ IF den.none THEN TRUE ELSE StackOf(heap, den) = <<>>
    /\ \E lf \in LogicalForms(vocab) :
           both' = [form |-> lf,
                    bu |-> Outcome("BU", Postfix(lf), den, heap),
                    td |-> Outcome("TD", Preorder(lf), den, heap)]
    /\ last' = [NoCall EXCEPT !.op = "compare"]
    /\ UNCHANGED <<engine, initial_state, vocab, heap, old, den, preHeap, nfired>>
    /\ UNCHANGED pvars

Next == Execute \/ ExecutePredicate \/ Finalize \/ Continue \/ Compare

Spec == Init /\ [][Next]_vars

----------------------------------------------------------------------------
(* The caller of SconePredicate and of SconeProgramChecker: it constructs  *)
(* predicates by name and hands programs of constructed predicates, with a *)
(* denotation, to a checker                                                 *)

PredicateNames ==
    {ColorR, ColorA, Num1, NumNeg1, NumBad, FracHalf, PColor, DNext, APour,
     AllObjects, Index, Argmin, H0, H1, Unknown, Empty}

\* the values of max_stack_size and action_must_clear_beam
StackSizes == {0, 1, 3}

\* the executors are not run
NoExecutor ==
    /\ engine = "BU"
    /\ initial_state = <<"r", "g", "r">>
    /\ vocab = {}
    /\ heap = <<>>
    /\ old = NoneDen
    /\ den = NoneDen
    /\ preHeap = <<>>
    /\ last = NoCall
    /\ nfired = [old |-> 0, den |-> 0]
    /\ both = NoForm

InitPredicate == NoExecutor /\ NoPredicates

\* SconePredicate(name): __new__, then __init__ on the instance it returned
Request ==
    /\ \E name \in PredicateNames :
           /\ IF name \in DOMAIN CACHE THEN TRUE ELSE Len(instances) < MaxInstances
           /\ LET n == new(CACHE, instances, name)
                  i == init(n.instances, n.pred, name)
              IN  /\ CACHE' = n.CACHE
                  /\ instances' = i.instances
                  /\ made' = [op |-> "request", name |-> name, err |-> i.err,
                              pred |-> IF i.err = "" THEN n.pred ELSE 0,
                              fresh |-> name \notin DOMAIN CACHE]
                  /\ first' = IF i.err = "" /\ name \notin DOMAIN first
                              THEN [x \in DOMAIN first \cup {name} |->
                                       IF x = name THEN n.pred ELSE first[x]]
                              ELSE first
    /\ checked' = NoCheck
    /\ UNCHANGED evars

\* the predicates that were returned to the caller
Constructed == {p \in 1..Len(instances) : instances[p].state = "typed"}

\* checker(program, denotation), for a checker of any configuration, a
\* program of constructed predicates and a stack of any depth up to
\* MaxStack + 1; the caller constructs a predicate before it checks again
Check ==
    /\ checked.op = "none"
    /\ \E max_stack_size \in StackSizes, action_must_clear_beam \in BOOLEAN,
          k \in 1..MaxProgram, depth \in 0..(MaxStack + 1) :
         \E program \in [1..k -> Constructed] :
           LET names == [j \in 1..k |-> instances[program[j]].name]
               r == checker_call(max_stack_size, action_must_clear_beam, names,
                                 [j \in 1..depth |-> IntV(j)])
           IN  checked' = [op |-> "check", max_stack_size |-> max_stack_size,
                           action_must_clear_beam |-> action_must_clear_beam,
                           program |-> names, depth |-> depth,
                           err |-> r.err, valid |-> r.valid]
    /\ made' = NoRequest
    /\ UNCHANGED <<CACHE, instances, first>>
    /\ UNCHANGED evars

NextPredicate == Request \/ Check

SpecPredicate == InitPredicate /\ [][NextPredicate]_vars

----------------------------------------------------------------------------
(* What the last call was handed *)

Called(ops) == last.op \in ops

Returns == last.err = ""

PriorStack == IF old.none THEN <<>> ELSE StackOf(preHeap, old)

PriorWorld == IF old.none THEN initial_state ELSE old.world_state

PriorHistory == IF old.none THEN <<>> ELSE old.command_history

\* every list that old reached before the call is as it was
OldUntouched == SubSeq(heap, 1, Len(preHeap)) = preHeap

\* one execute_predicate call per predicate, each handed the denotation the
\* call before it returned
RECURSIVE ThreadPredicates(_, _, _, _, _)
ThreadPredicates(self, toks, d, h, calls) ==
    IF toks = <<>> THEN [err |-> "", heap |-> h, den |-> d, calls |-> calls]
    ELSE LET r == execute_predicate(self, Head(toks), d, h)
         IN  IF r.err # ""
             THEN [err |-> r.err, heap |-> r.heap, den |-> NoneDen,
                   calls |-> calls + 1]
             ELSE ThreadPredicates(self, Tail(toks), r.den, r.heap, calls + 1)

\* the predicates whose bottom-up step performs an action
PerformsAction(name) ==
    \/ Len(name) > 1 /\ name[1] = "A"
    \/ name = H0
    \/ name = HUndo

----------------------------------------------------------------------------
(* C1: bottom-up, a non-empty predicate sequence executed by one execute    *)
(* call ends as the same sequence threaded through one execute_predicate   *)
(* call per predicate: both fail, or both return denotations with equal    *)
(* world state, command history and execution stack.                       *)
C1_ExecuteEqualsThreading ==
    (Called({"execute"}) /\ engine = "BU" /\ last.toks # <<>>) =>
        LET t == ThreadPredicates("BU", last.toks, old, preHeap, 0)
        IN  IF t.err # "" THEN ~Returns /\ den.none
            ELSE /\ Returns
                 /\ den.world_state = t.den.world_state
                 /\ den.command_history = t.den.command_history
                 /\ StackOf(heap, den) = StackOf(t.heap, t.den)

\* a two-predicate sequence that performs an action on a prior denotation
C1_Witness ==
    /\ Called({"execute"}) /\ engine = "BU" /\ Returns
    /\ Len(last.toks) = 2
    /\ ~old.none /\ PriorStack # <<>>
    /\ last.fired # <<>>

(* C3: along successful steps of either executor the command history is    *)
(* append-only: the returned history is the prior history followed by the  *)
(* entries of the actions performed; a single step performs at most one    *)
(* action, and then its world state is the state the port returned for     *)
(* that entry; a step that performs none keeps world state and history;    *)
(* utterance_idx equals the number of actions performed so far.            *)
C3_HistoryAppendOnly ==
    /\ ~den.none => utterance_idx(den) = nfired.den
    /\ ~old.none => utterance_idx(old) = nfired.old
    /\ (Called({"execute", "execute_predicate"}) /\ Returns) =>
          /\ den.command_history = PriorHistory \o last.fired
          /\ Len(den.command_history) >= Len(PriorHistory)
          /\ Called({"execute_predicate"}) =>
                /\ Len(last.fired) <= 1
                /\ last.fired = <<>> => den.world_state = PriorWorld
                /\ last.fired # <<>> =>
                      den.world_state =
                          apply_action(PriorWorld, last.fired[1][1].s,
                                       Tail(last.fired[1])).world_state
                /\ engine = "BU" =>
                      (last.fired # <<>> <=> PerformsAction(last.toks[1]))

\* a step that performs an action on a denotation that has a history already
C3_Witness ==
    /\ Called({"execute_predicate"}) /\ Returns
    /\ last.fired # <<>>
    /\ PriorHistory # <<>>
    /\ den.world_state # PriorWorld

C5_PriorUnmodified ==
    (Called({"execute", "execute_predicate"}) /\ engine = "BU") =>
        /\ OldUntouched
        /\ ~old.none => StackOf(heap, old) = PriorStack
        /\ ~Returns =>
              /\ den.none
              /\ last.applied =
                    ThreadPredicates("BU", last.toks, old, preHeap, 0).calls
              /\ last.applied <= Len(last.toks)

\* execute failed on the first of two predicates, on a prior denotation with a stack
C5_Witness ==
    /\ Called({"execute"}) /\ engine = "BU" /\ ~Returns
    /\ Len(last.toks) = 2 /\ last.applied = 1
    /\ ~old.none /\ PriorStack # <<>>

(* C6: top-down, a call on a prior denotation that has open frames leaves *)
(* the prior denotation's stack as it was, the argument list of every     *)
(* open frame included.                                                    *)
C6_IndependentStacks ==
    (/\ Called({"execute", "execute_predicate"})
     /\ engine = "TD"
     /\ ~old.none
     /\ PriorStack # <<>>) => OldUntouched

(* C2: a logical form run in postfix through the bottom-up executor and in *)
(* pre-order through the top-down executor, from the same denotation,     *)
(* fails in both or ends in the same final world state in both.           *)
C2_EnginesAgree ==
    last.op = "compare" =>
        /\ (both.bu.err = "") = (both.td.err = "")
        /\ both.bu.err = "" => both.bu.world_state = both.td.world_state

\* the predicates that only push: colours, numbers, fractions and all-objects
PushOnly(name) ==
    \/ HasType(name, "color")
    \/ HasType(name, "number")
    \/ HasType(name, "fraction")
    \/ name = AllObjects

Pushed(name) ==
    IF HasType(name, "number") THEN IntV(int(name))
    ELSE IF name = AllObjects THEN all_objects(PriorWorld)
    ELSE StrV(name)

(* C7: the bottom-up step of a push-only predicate always returns, with   *)
(* the value pushed on top of the prior stack and with the prior world    *)
(* state and history.                                                      *)
C7_PushOnly ==
    (/\ Called({"execute_predicate"})
     /\ engine = "BU"
     /\ PushOnly(last.toks[1])) =>
        /\ Returns
        /\ StackOf(heap, den) = Append(PriorStack, Pushed(last.toks[1]))
        /\ den.world_state = PriorWorld
        /\ den.command_history = PriorHistory

(* C8: the bottom-up step of P<prop> replaces the top value by its join,  *)
(* that of D<prop> replaces the top two values (first pushed, then last   *)
(* pushed) by their double join; world state and history stay; when the   *)
(* join is empty the step fails with the empty-join error and returns no  *)
(* denotation.                                                             *)
C8_Joins ==
    (Called({"execute_predicate"}) /\ engine = "BU") =>
        LET name == last.toks[1]
            n == Len(PriorStack)
            Kept(j, m) ==
                /\ Returns =>
                      /\ j.err = "" /\ Truthy(j.val)
                      /\ StackOf(heap, den) = Append(SubSeq(PriorStack, 1, m), j.val)
                      /\ den.world_state = PriorWorld
                      /\ den.command_history = PriorHistory
                /\ (j.err = "" /\ ~Truthy(j.val)) =>
                      last.err = "EmptyJoinResult" /\ den.none
        IN  /\ (HasType(name, "property") /\ n >= 1) =>
                  Kept(apply_join(PriorWorld, PriorStack[n], Tail(name)), n - 1)
            /\ (HasType(name, "double_property") /\ n >= 2) =>
                  Kept(apply_double_join(PriorWorld, PriorStack[n - 1],
                                         PriorStack[n], Tail(name)), n - 2)

\* a double join of two different colours returned
C8_Witness ==
    /\ Called({"execute_predicate"}) /\ engine = "BU" /\ Returns
    /\ last.toks[1] = DNext
    /\ PriorStack # <<>>
    /\ PriorStack[1] # PriorStack[Len(PriorStack)]

\* the element the index predicate is to select: the n-th for n > 0, the
\* first for 0, and counted from the end for n < 0
Selects(l, n) ==
    IF n > 0 THEN l[n] ELSE IF n = 0 THEN l[1] ELSE l[Len(l) + n + 1]

(* C9: the bottom-up step of index replaces the list and the number on    *)
(* top of it by the element the number selects; the top-down reduction of *)
(* an index frame that holds the list, when the number arrives, hands the *)
(* same element to the enclosing frame.                                    *)
C9_Index ==
    (Called({"execute_predicate"}) /\ Returns) =>
        LET n == Len(PriorStack)
        IN  /\ (engine = "BU" /\ last.toks[1] = Index) =>
                  /\ n >= 2
                  /\ PriorStack[n].t = "int" /\ PriorStack[n - 1].t = "list"
                  /\ StackOf(heap, den) =
                        Append(SubSeq(PriorStack, 1, n - 2),
                               Selects(PriorStack[n - 1].l, PriorStack[n].n))
            /\ (/\ engine = "TD"
                /\ HasType(last.toks[1], "number")
                /\ n >= 2
                /\ preHeap[PriorStack[n].n][1] = StrV(Index)
                /\ Len(preHeap[PriorStack[n].n]) = 2) =>
                  LET objects == preHeap[PriorStack[n].n][2]
                      result == Selects(objects.l, int(last.toks[1]))
                      st == StackOf(heap, den)
                  IN  /\ objects.t = "list"
                      /\ IF last.fired # <<>>
                         THEN last.fired[1][Len(last.fired[1])] = result
                         ELSE /\ Len(st) = n - 1
                              /\ heap[st[n - 1].n][Len(heap[st[n - 1].n])] = result

\* index with the number 0 returned
C9_Witness ==
    /\ Called({"execute_predicate"}) /\ engine = "BU" /\ Returns
    /\ last.toks[1] = Index
    /\ PriorStack[Len(PriorStack)] = IntV(0)

\* the history entry a number selects: the k-th for k > 0, counted from the
\* end for k < 0, the first for 0
Entry(history, k) ==
    IF k > 0 THEN history[k]
    ELSE IF k = 0 THEN history[1] ELSE history[Len(history) + k + 1]

(* C10: the bottom-up step of H0 with the integer k on top of the stack   *)
(* performs the action of the history entry k selects on the rest of the  *)
(* stack and appends its entry, whose action name is that entry's; HUndo  *)
(* performs the port's reverse of that action (Unpour for Pour); the      *)
(* earlier entries stay.                                                   *)
C10_Replay ==
    (/\ Called({"execute_predicate"})
     /\ engine = "BU"
     /\ last.toks[1] \in {H0, HUndo}
     /\ Returns) =>
        LET n == Len(PriorStack)
            command == Entry(PriorHistory, PriorStack[n].n)
            action == IF last.toks[1] = H0 THEN command[1].s
                      ELSE reverse_action(command[1].s).val
            r == apply_action(PriorWorld, action, SubSeq(PriorStack, 1, n - 1))
            entry == den.command_history[Len(den.command_history)]
        IN  /\ PriorHistory # <<>>
            /\ PriorStack[n].t = "int"
            /\ den.command_history = Append(PriorHistory, r.history_entry)
            /\ SubSeq(den.command_history, 1, Len(PriorHistory)) = PriorHistory
            /\ entry[1].s = action
            /\ (last.toks[1] = HUndo /\ command[1].s = Pour) => entry[1].s = Unpour
            /\ den.world_state = r.world_state
            /\ StackOf(heap, den) = r.rest

\* HUndo returned on a history whose selected entry is a Pour
C10_Witness ==
    /\ Called({"execute_predicate"}) /\ engine = "BU" /\ Returns
    /\ last.toks[1] = HUndo
    /\ PriorHistory # <<>>
    /\ PriorHistory[Len(PriorHistory)][1].s = Pour


\* the predicates that open a top-level frame in the top-down executor
OpensAction(name) == HasType(name, "action") \/ name \in {H0, HUndo}

(* C11: top-down, the step of A<action>, H0 or HUndo on a stack that holds *)
(* a frame fails with the assertion error; it returns no denotation and    *)
(* leaves the prior denotation (stack, frames, world state, history) as it *)
(* was.                                                                     *)
C11_ActionOnlyOnEmptyStack ==
    (/\ Called({"execute_predicate"})
     /\ engine = "TD"
     /\ OpensAction(last.toks[1])
     /\ PriorStack # <<>>) =>
        /\ last.err = "MisplacedAction"
        /\ den.none
        /\ last.fired = <<>>
        /\ OldUntouched

\* APour was applied on a stack that holds an open index frame
C11_Witness ==
    /\ Called({"execute_predicate"}) /\ engine = "TD"
    /\ last.toks[1] \in {APour, ADrain, H0, HUndo}
    /\ PriorStack # <<>>
    /\ last.err = "MisplacedAction"

(* C12 as stated: top-down, the step that opens the frame of A<action>, H0 *)
(* or HUndo also reduces it, so no frame is on the stack it returns.       *)
C12_ReducedWhenOpened ==
    (/\ Called({"execute_predicate"})
     /\ engine = "TD"
     /\ OpensAction(last.toks[1])
     /\ Returns) => StackOf(heap, den) = <<>>

(* C12 amended: top-down, the step of A<action>, H0 or HUndo on an empty   *)
(* stack returns with exactly one frame on the stack, which holds the name *)
(* and no argument; nothing is reduced or performed in that step, and the  *)
(* world state and the history are the prior ones.                         *)
C12_OpenedFrameWaits ==
    (/\ Called({"execute_predicate"})
     /\ engine = "TD"
     /\ OpensAction(last.toks[1])
     /\ PriorStack = <<>>) =>
        LET st == StackOf(heap, den)
        IN  /\ Returns
            /\ Len(st) = 1
            /\ st[1].t = "frame"
            /\ heap[st[1].n] = <<StrV(last.toks[1])>>
            /\ last.fired = <<>>
            /\ den.world_state = PriorWorld
            /\ den.command_history = PriorHistory

\* H0 was applied on the empty stack of a denotation with a history
C12_Witness ==
    /\ Called({"execute_predicate"}) /\ engine = "TD" /\ Returns
    /\ last.toks[1] = H0
    /\ PriorStack = <<>>
    /\ PriorHistory # <<>>

(* C20: top-down, the step in which an action fires returns a denotation   *)
(* with an empty stack, which finalize accepts.                            *)
C20_EmptyAfterAction ==
    (/\ Called({"execute_predicate"})
     /\ engine = "TD"
     /\ Returns
     /\ last.fired # <<>>) =>
        /\ StackOf(heap, den) = <<>>
        /\ finalize(den, heap).err = ""
        /\ finalize(den, heap).ret = den.world_state

\* an action fired in a step that also reduced a frame nested in its own
C20_Witness ==
    /\ Called({"execute_predicate"}) /\ engine = "TD" /\ Returns
    /\ last.fired # <<>>
    /\ Len(PriorStack) = 2


\* the frames on the stack of a denotation
Frames(h, d) ==
    LET st == StackOf(h, d)
    IN  {h[st[i].n] : i \in {j \in 1..Len(st) : st[j].t = "frame"}}

(* C13: top-down, no denotation that a call returns has on its stack an   *)
(* index frame that holds 2 arguments or more, or an H frame that holds 1 *)
(* argument or more: such a frame was reduced in the step that gave it    *)
(* its last argument.                                                      *)
C13_ReducedAtArity ==
    (/\ Called({"execute", "execute_predicate"})
     /\ engine = "TD"
     /\ Returns) =>
        \A args \in Frames(heap, den) :
            /\ args[1].s = Index => Len(args) - 1 < 2
            /\ (args[1].s # Index /\ args[1].s[1] = "H") => Len(args) - 1 < 1


\* the tag the rules give a name, taken in their order
FirstMatch(name) ==
    IF Len(name) = 1 /\ name[1] \in Letters THEN "color"
    ELSE IF name[1] = "-" \/ name[1] \in {Digits[i] : i \in 1..Len(Digits)}
    THEN "number"
    ELSE IF name[1] = "X" THEN "fraction"
    ELSE IF name[1] = "P" THEN "property"
    ELSE IF name[1] = "D" THEN "double_property"
    ELSE IF name[1] = "A" THEN "action"
    ELSE IF name \in {AllObjects, Index, Argmin, <<"a", "r", "g", "m", "a", "x">>}
    THEN "builtin"
    ELSE IF name[1] = "H" THEN "history_slot"
    ELSE "none"

(* C14: a predicate that SconePredicate(name) returns has exactly one     *)
(* type, the one of the first rule its name matches, and its types_vector *)
(* is true at that type's place in ALL_TYPES and nowhere else; a name no  *)
(* rule matches gets no predicate.                                         *)
C14_OneTag ==
    (made.op = "request" /\ made.name # Empty) =>
        IF FirstMatch(made.name) = "none"
        THEN made.err = "UnknownPredicate"
        ELSE /\ made.err = ""
             /\ instances[made.pred].types = <<FirstMatch(made.name)>>
             /\ \A i \in 1..Len(ALL_TYPES) :
                    types_vector(instances[made.pred])[i]
                        <=> ALL_TYPES[i] = FirstMatch(made.name)
             /\ Cardinality({i \in 1..Len(ALL_TYPES) :
                                types_vector(instances[made.pred])[i]}) = 1

\* the name "A", which the COLOR rule and the ACTION rule both match, was
\* requested
C14_Witness ==
    /\ made.op = "request" /\ made.err = ""
    /\ made.name = ColorA

(* C15: a request for a name that was requested before returns the        *)
(* instance the first request returned, an instance that is equal to it   *)
(* and has its name and types; the CACHE holds, for every name that was   *)
(* returned a predicate, the instance its first request returned.         *)
C15_SameInstance ==
    /\ (made.op = "request" /\ made.err = "") =>
          /\ made.name \in DOMAIN first
          /\ made.pred = first[made.name]
          /\ eq(instances[made.pred], instances[first[made.name]])
          /\ instances[made.pred].name = made.name
          /\ instances[made.pred].types = compute_types(made.name).types
    /\ \A name \in DOMAIN first :
          name \in DOMAIN CACHE /\ CACHE[name] = first[name]

\* a name was requested again, after another name had been requested
C15_Witness ==
    /\ made.op = "request" /\ made.err = ""
    /\ ~made.fresh
    /\ Len(instances) = 2
    /\ made.pred = 1

(* C16: the checker returns False exactly when a bound is configured and  *)
(* the stack is deeper than it, or action_must_clear_beam is set, the     *)
(* stack is not empty and the last predicate of the program is an action  *)
(* predicate.                                                              *)
C16_Checker ==
    checked.op = "check" =>
        /\ checked.err = ""
        /\ ~checked.valid <=>
              \/ checked.max_stack_size # 0 /\ checked.depth > checked.max_stack_size
              \/ /\ checked.action_must_clear_beam
                 /\ checked.depth > 0
                 /\ HasType(checked.program[Len(checked.program)], "action")


C18_ResidueStays ==
    (/\ Called({"execute_predicate"})
     /\ engine = "BU"
     /\ HasType(last.toks[1], "action")
     /\ Returns) =>
        LET popped == ActionArity(Tail(last.toks[1]))
            st == StackOf(heap, den)
        IN  /\ st = apply_action(PriorWorld, Tail(last.toks[1]), PriorStack).rest
            /\ Len(st) = Len(PriorStack) - popped
            /\ st = SubSeq(PriorStack, 1, Len(PriorStack) - popped)

\* an action left on the stack an element it did not consume
C18_Witness ==
    /\ Called({"execute_predicate"}) /\ engine = "BU" /\ Returns
    /\ HasType(last.toks[1], "action")
    /\ StackOf(heap, den) # <<>>


(* C19: top-down, one apply step makes at most as many passes of the      *)
(* reduction loop as the stack held frames when the step began: each pass  *)
(* pops one frame, at most one action fires, and the stack the step        *)
(* returns is shorter by the passes made, or by one less when the step     *)
(* pushed a frame (opened, or rewritten from H0 or HUndo).                 *)
C19_CascadeBounded ==
    (/\ Called({"execute_predicate"})
     /\ engine = "TD") =>
        /\ last.reductions <= Len(PriorStack)
        /\ Len(last.fired) <= 1
        /\ Returns =>
              /\ Len(StackOf(heap, den)) >= Len(PriorStack) - last.reductions
              /\ Len(StackOf(heap, den)) <= Len(PriorStack) - last.reductions + 1

\* one step reduced two nested frames, the second being the action's
C19_Witness ==
    /\ Called({"execute_predicate"}) /\ engine = "TD" /\ Returns
    /\ last.reductions = 2
    /\ Len(PriorStack) = 2
    /\ last.fired # <<>>


\* the name at the head of the frame a stack element refers to
HeadOf(h, v) == h[v.n][1].s

\* the stack of d holds frames only, each headed by a name: an action's
\* (A<action>, H0, HUndo) at the bottom, a function's (P<prop>, D<prop>,
\* index, H<k>) above it
FrameShaped(h, d) ==
    LET st == StackOf(h, d)
    IN  \A i \in 1..Len(st) :
            /\ st[i].t = "frame"
            /\ h[st[i].n] # <<>>
            /\ h[st[i].n][1].t = "str"
            /\ HeadOf(h, st[i]) # <<>>
            /\ IF i = 1 THEN OpensAction(HeadOf(h, st[i]))
               ELSE /\ ~OpensAction(HeadOf(h, st[i]))
                    /\ \/ HeadOf(h, st[i])[1] \in {"P", "D", "H"}
                       \/ HeadOf(h, st[i]) = Index

(* C21: top-down, every denotation the caller holds has a stack of frames  *)
(* only, each non-empty and headed by a name: the bottom one by A<action>, *)
(* H0 or HUndo, the ones above it by P<prop>, D<prop>, index or H<k>; and  *)
(* a step of any other predicate than A<action>, H0, HUndo on the empty    *)
(* stack fails.                                                            *)
C21_StackShape ==
    engine = "TD" =>
        /\ ~den.none => FrameShaped(heap, den)
        /\ ~old.none => FrameShaped(heap, old)
        /\ (/\ Called({"execute_predicate"})
            /\ PriorStack = <<>>
            /\ ~OpensAction(last.toks[1])) => ~Returns

\* a function frame is open above the action's frame, and holds an argument
C21_Witness ==
    /\ engine = "TD"
    /\ ~den.none
    /\ Len(StackOf(heap, den)) = 2
    /\ Len(heap[StackOf(heap, den)[2].n]) >= 2


(* C22: the bottom-up step of a name fails with the unknown-predicate      *)
(* error exactly when the classification of the name fails with it: a name *)
(* that _compute_types gives a type (the BUILTIN names included) is        *)
(* dispatched by apply, and a name it rejects is rejected by apply.        *)
C22_DispatchAgrees ==
    (/\ Called({"execute_predicate"})
     /\ engine = "BU") =>
        (last.err = "UnknownPredicate"
            <=> compute_types(last.toks[1]).err = "UnknownPredicate")


(* C23: every name the registry CACHE holds is a name that _compute_types  *)
(* gives exactly one type: a construction that fails with the              *)
(* unknown-predicate error stores nothing under the name it was given.     *)
C23_RegistryClassified ==
    /\ \A name \in DOMAIN CACHE :
          /\ compute_types(name).err = ""
          /\ Len(compute_types(name).types) = 1
    /\ (made.op = "request" /\ made.err = "UnknownPredicate") =>
          made.name \notin DOMAIN CACHE

====
